---- MODULE Spec2Model ----
(***************************************************************************)
(* AIDA-X neural amp loader (src/src/aidadsp-plugin.cpp): the tone stack,  *)
(* the dynamically loaded model, the loader's publication of a new model   *)
(* and the per-block audio path, as a state machine.                       *)
(*                                                                         *)
(* Floating point values are fixed point integers: gains in 1/GainUnit,    *)
(* normalised frequencies in 1/FcUnit.  Audio samples live in the finite   *)
(* domain 0..SampleMod-1 (arithmetic modulo SampleMod).                    *)
(***************************************************************************)
EXTENDS Integers, Sequences, FiniteSets, TLC

VARIABLES
    aida,        \* AidaToneControl: seven Biquads, two ExpSmoothers, four flags
    parameters,  \* float parameters[kNumParameters]
    model,       \* DynamicModel* model (NULL = nullptr)
    running,     \* std::atomic<bool> running
    heap,        \* the DynamicModel instances make_unique has created
    nextId,      \* the next instance make_unique creates
    host,        \* the host's side: sample rate, activation
    loader,      \* the thread inside setState(): position and locals
    audio,       \* the thread inside run() / activate(): position and locals
    snap         \* the tone stack and buffer as they were when the stage in progress began

vars == <<aida, parameters, model, running, heap, nextId, host, loader, audio, snap>>

(***************************************************************************)
(* Bounds of the model                                                     *)
(***************************************************************************)
\* samples are 0..SampleMod-1
SampleMod == 3
\* recurrent state of a network is 0..StateMod-1
StateMod == 3
\* numSamples of one audio block
BlockLen == 2
\* number of DynamicModel instances setState() may create in one behaviour
MaxLoads == 2
\* number of run() calls the host makes in one behaviour of Spec and SeqSpec
MaxBlocks == 2
\* number of parameters away from their default at one time in ParamSpec
MaxSets == 2

(***************************************************************************)
(* Program constants                                                       *)
(***************************************************************************)
NULL == 0
\* float out[2048] in setState()
PrimeLen == 2048
\* fixed point units
GainUnit == 1000
FcUnit == 1000000
COMMON_Q == 707
DEPTH_FREQ == 75
PRESENCE_FREQ == 900
\* 35.0f / sampleRate
DC_FREQ == 35

\* enum Parameters
kParameterINLPF == 0
kParameterPREGAIN == 1
kParameterNETBYPASS == 2
kParameterEQBYPASS == 3
kParameterEQPOS == 4
kParameterBASSGAIN == 5
kParameterBASSFREQ == 6
kParameterMIDGAIN == 7
kParameterMIDFREQ == 8
kParameterMIDQ == 9
kParameterMTYPE == 10
kParameterTREBLEGAIN == 11
kParameterTREBLEFREQ == 12
kParameterDEPTH == 13
kParameterPRESENCE == 14
kParameterMASTER == 15
kParameterCABSIMBYPASS == 16
kParameterGLOBALBYPASS == 17
kParameterCount == 18

\* kParameters[i].ranges.def (Q in 1/1000)
kParameterDefaults ==
    <<50, -6, 0, 0, 0, 0, 305, 0, 750, 707, 0, 0, 2000, 0, 0, 0, 0, 0>>

Samples == 0 .. (SampleMod - 1)
Ids == 1 .. MaxLoads

(***************************************************************************)
(* Conversions                                                             *)
(***************************************************************************)
\* 10^(g/20) in 1/GainUnit, for the decibel values the model uses
Pow10Db(g) ==
    CASE g = -60 -> 1
      [] g = -40 -> 10
      [] g = -20 -> 100
      [] g = -15 -> 178
      [] g = -12 -> 251
      [] g = -6  -> 501
      [] g = 0   -> 1000
      [] g = 6   -> 1995
      [] g = 15  -> 5623
      [] g = 20  -> 10000

\* g > -90.f ? std::pow(10.f, g * 0.05f) : 0.f
DB_CO(g) == IF g > -90 THEN Pow10Db(g) ELSE 0

\* g < 100.f ? (g / 100.f) : 1.f   (in 1/FcUnit)
PC_CO(g) == IF g < 100 THEN (g * FcUnit) \div 100 ELSE FcUnit

\* value > 0.5f
AboveHalf(value) == 2 * value > 1

\* sample * gain
Scale(x, g) == ((x * g) \div GainUnit) % SampleMod

(***************************************************************************)
(* Biquad (Biquad.cpp): type, Fc, Q, peakGain and the delay registers      *)
(***************************************************************************)
BiquadTypes == {"lowpass", "highpass", "bandpass", "peak", "lowshelf", "highshelf"}

Biquad(type, Fc, Q, peakGain) ==
    [type |-> type, Fc |-> Fc, Q |-> Q, peakGain |-> peakGain, z1 |-> 0, z2 |-> 0]

setBiquad(f, type, Fc, Q, peakGain) ==
    [f EXCEPT !.type = type, !.Fc = Fc, !.Q = Q, !.peakGain = peakGain]

setFc(f, Fc) == [f EXCEPT !.Fc = Fc]

setQ(f, Q) == [f EXCEPT !.Q = Q]

setPeakGain(f, peakGain) == [f EXCEPT !.peakGain = peakGain]

\* the five coefficients the filter's settings give
BiquadCoefs(f) ==
    LET t == CASE f.type = "lowpass" -> 1
               [] f.type = "highpass" -> 2
               [] f.type = "bandpass" -> 1
               [] f.type = "peak" -> 2
               [] f.type = "lowshelf" -> 1
               [] f.type = "highshelf" -> 2
    IN  [a0 |-> 1, a1 |-> t, a2 |-> 1, b1 |-> 1, b2 |-> t]

\* out = in * a0 + z1; z1 = in * a1 + z2 - b1 * out; z2 = in * a2 - b2 * out
BiquadProcess(f, in) ==
    LET c == BiquadCoefs(f)
        o == (in * c.a0 + f.z1) % SampleMod
    IN  [out |-> o,
         filter |-> [f EXCEPT !.z1 = (in * c.a1 + f.z2 - c.b1 * o) % SampleMod,
                              !.z2 = (in * c.a2 - c.b2 * o) % SampleMod]]

(***************************************************************************)
(* ExpSmoother (ExpSmoother.hpp)                                           *)
(***************************************************************************)
ExpSmoother == [current |-> 0, target |-> 0, tau |-> 0, sampleRate |-> 0]

setTimeConstant(s, tau) == [s EXCEPT !.tau = tau]

smootherSetSampleRate(s, sr) == [s EXCEPT !.sampleRate = sr]

setTarget(s, t) == [s EXCEPT !.target = t]

clearToTarget(s) == [s EXCEPT !.current = s.target]

\* current = target + coef * (current - target), with coef = 1/2
smootherNext(s) == [s EXCEPT !.current = s.target + ((s.current - s.target) \div 2)]

(***************************************************************************)
(* Block loops.  Each iteration binds its result with a quantifier over a  *)
(* one-element set, so that the iteration is evaluated once and the next   *)
(* one starts from its value.                                              *)
(***************************************************************************)
\* the one element of a one-element set
The(S) == CHOOSE x \in S : TRUE

\* for (i = 0; i < numSamples; ++i) out[i] *= smoother.next();
RECURSIVE GainRampLoop(_, _, _)
GainRampLoop(smoother, out, i) ==
    IF i > Len(out) THEN [out |-> out, smoother |-> smoother]
    ELSE The({GainRampLoop(s, [out EXCEPT ![i] = Scale(out[i], s.current)], i + 1) :
                 s \in {smootherNext(smoother)}})

applyGainRamp(smoother, out) == GainRampLoop(smoother, out, 1)

\* for (i = 0; i < numSamples; ++i) out[i] = filter.process(out[i]);
RECURSIVE BiquadLoop(_, _, _)
BiquadLoop(filter, out, i) ==
    IF i > Len(out) THEN [out |-> out, filter |-> filter]
    ELSE The({BiquadLoop(r.filter, [out EXCEPT ![i] = r.out], i + 1) :
                 r \in {BiquadProcess(filter, out[i])}})

applyBiquadFilter(filter, out) == BiquadLoop(filter, out, 1)

\* applyToneControls without the test of mid_type: every filter runs
ToneOrderAll(mid_type) == <<"depth", "bass", "mid", "treble", "presence">>

\* the chain with its first two filters exchanged
ToneOrderBassFirst(mid_type) ==
    IF mid_type = "bandpass" THEN <<"mid">>
    ELSE <<"bass", "depth", "mid", "treble", "presence">>

\* the filters applyToneControls runs, in the order it runs them
ToneOrder(mid_type) ==
    IF mid_type = "bandpass" THEN <<"mid">>
    ELSE <<"depth", "bass", "mid", "treble", "presence">>

RECURSIVE ToneLoop(_, _, _, _)
ToneLoop(a, out, order, k) ==
    IF k > Len(order) THEN [out |-> out, aida |-> a, ran |-> order]
    ELSE The({ToneLoop([a EXCEPT ![order[k]] = r.filter], r.out, order, k + 1) :
                 r \in {applyBiquadFilter(a[order[k]], out)}})

applyToneControls(a, out) == ToneLoop(a, out, ToneOrder(a.mid_type), 1)

(***************************************************************************)
(* DynamicModel and applyModel                                             *)
(***************************************************************************)
Variants == {"NullModel", "Net1", "Net2"}

\* ModelType::input_size
InputSize(variant) ==
    CASE variant = "NullModel" -> 0
      [] variant = "Net1" -> 1
      [] variant = "Net2" -> 2

\* make_unique<DynamicModel>(): value initialised
NewDynamicModel ==
    [live |-> TRUE, variant |-> "NullModel", weights |-> FALSE, h |-> 0,
     input_skip |-> FALSE, output_gain |-> 0, stage |-> "allocated"]

\* a slot of the heap nothing was created in yet
NoInstance == [NewDynamicModel EXCEPT !.live = FALSE, !.stage = "none"]

\* custom_model.forward(in): one sample in, one sample out, the recurrent state advanced
Forward(h, x) == [y |-> (x + h + 1) % SampleMod, h |-> (h + x + 1) % StateMod]

\* custom_model.reset()
ResetState(inst) == [inst EXCEPT !.h = 0]

\* out[i] = forward(out + i) * output_gain, the skip branch accumulating instead
SampleSkipSwapped(input_skip, x, y, output_gain) ==
    IF input_skip THEN Scale(y, output_gain) ELSE (x + Scale(y, output_gain)) % SampleMod

SampleOut(input_skip, x, y, output_gain) ==
    IF input_skip THEN (x + Scale(y, output_gain)) % SampleMod ELSE Scale(y, output_gain)

\* the loop of applyModel over samples lo..hi of buf, from recurrent state h:
\* the samples written, the state reached and the inputs forward was given
RECURSIVE ModelLoop(_, _, _, _, _, _)
ModelLoop(input_skip, output_gain, h, buf, lo, hi) ==
    IF lo > hi THEN [out |-> <<>>, h |-> h, xs |-> <<>>]
    ELSE IF lo = hi
    THEN The({[out |-> <<SampleOut(input_skip, buf[lo], f.y, output_gain)>>,
               h |-> f.h, xs |-> <<buf[lo]>>] :
                 f \in {Forward(h, buf[lo])}})
    ELSE The({The({[out |-> l.out \o r.out, h |-> r.h, xs |-> l.xs \o r.xs] :
                      r \in {ModelLoop(input_skip, output_gain, l.h, buf,
                                       ((lo + hi) \div 2) + 1, hi)}}) :
                 l \in {ModelLoop(input_skip, output_gain, h, buf, lo, (lo + hi) \div 2)}})

\* applyModel without the test of input_size: every variant is run
applyModelAnyWidth(inst, out) ==
    The({[out |-> r.out, inst |-> [inst EXCEPT !.h = r.h], xs |-> r.xs] :
            r \in {ModelLoop(inst.input_skip, inst.output_gain, inst.h, out,
                             1, Len(out))}})

\* applyModel(model, out, numSamples): the buffer and the instance afterwards
applyModel(inst, out) ==
    IF InputSize(inst.variant) = 1
    THEN The({[out |-> r.out, inst |-> [inst EXCEPT !.h = r.h], xs |-> r.xs] :
                 r \in {ModelLoop(inst.input_skip, inst.output_gain, inst.h, out,
                                  1, Len(out))}})
    ELSE [out |-> out, inst |-> inst, xs |-> <<>>]

(***************************************************************************)
(* AidaToneControl                                                         *)
(***************************************************************************)
ParamIdx == 0 .. (kParameterCount - 1)

\* value / sampleRate, in 1/FcUnit (both scaled down by 100, the product
\* value * FcUnit being beyond the integers of the model checker)
Normalised(value, sampleRate) == (value * (FcUnit \div 100)) \div (sampleRate \div 100)

MidBiquadType(mid_type) == IF mid_type = "bandpass" THEN "bandpass" ELSE "peak"

\* the member initialisers and the constructor of AidaToneControl
NewAidaToneControl ==
    [dc_blocker |-> Biquad("highpass", FcUnit \div 2, COMMON_Q, 0),
     in_lpf |-> Biquad("lowpass", FcUnit \div 2, COMMON_Q, 0),
     bass |-> Biquad("lowshelf", FcUnit \div 2, COMMON_Q, 0),
     mid |-> Biquad("peak", FcUnit \div 2, COMMON_Q, 0),
     treble |-> Biquad("highshelf", FcUnit \div 2, COMMON_Q, 0),
     depth |-> Biquad("highshelf", FcUnit \div 2, COMMON_Q, 0),
     presence |-> Biquad("highshelf", FcUnit \div 2, COMMON_Q, 0),
     pregain |-> setTimeConstant(ExpSmoother, 1),
     mastergain |-> setTimeConstant(ExpSmoother, 1),
     net_bypass |-> FALSE,
     eq_bypass |-> FALSE,
     eq_pos |-> "post",
     mid_type |-> "peak"]

\* AidaToneControl::setSampleRate
setSampleRate(a, p, sampleRate) ==
    [a EXCEPT
        !.dc_blocker = setFc(@, Normalised(DC_FREQ, sampleRate)),
        !.in_lpf = setFc(@, PC_CO(p[kParameterINLPF]) \div 2),
        !.bass = setBiquad(@, "lowshelf", Normalised(p[kParameterBASSFREQ], sampleRate),
                           COMMON_Q, p[kParameterBASSGAIN]),
        !.mid = setBiquad(@, MidBiquadType(a.mid_type),
                          Normalised(p[kParameterMIDFREQ], sampleRate),
                          p[kParameterMIDQ], p[kParameterMIDGAIN]),
        !.treble = setBiquad(@, "highshelf", Normalised(p[kParameterTREBLEFREQ], sampleRate),
                             COMMON_Q, p[kParameterTREBLEGAIN]),
        !.depth = setBiquad(@, "highshelf", Normalised(DEPTH_FREQ, sampleRate),
                            COMMON_Q, p[kParameterDEPTH]),
        !.presence = setBiquad(@, "highshelf", Normalised(PRESENCE_FREQ, sampleRate),
                               COMMON_Q, p[kParameterPRESENCE]),
        !.pregain = setTarget(smootherSetSampleRate(@, sampleRate),
                              DB_CO(p[kParameterPREGAIN])),
        !.mastergain = setTarget(smootherSetSampleRate(@, sampleRate),
                                 DB_CO(p[kParameterMASTER]))]

\* the switch of setParameterValue
ParameterSwitch(a, index, value, sampleRate) ==
    CASE index = kParameterINLPF -> [a EXCEPT !.in_lpf = setFc(@, PC_CO(value) \div 2)]
      [] index = kParameterPREGAIN -> [a EXCEPT !.pregain = setTarget(@, DB_CO(value))]
      [] index = kParameterNETBYPASS -> [a EXCEPT !.net_bypass = AboveHalf(value)]
      [] index = kParameterEQBYPASS -> [a EXCEPT !.eq_bypass = AboveHalf(value)]
      [] index = kParameterEQPOS ->
            [a EXCEPT !.eq_pos = IF AboveHalf(value) THEN "pre" ELSE "post"]
      [] index = kParameterBASSGAIN -> [a EXCEPT !.bass = setPeakGain(@, value)]
      [] index = kParameterBASSFREQ ->
            [a EXCEPT !.bass = setFc(@, Normalised(value, sampleRate))]
      [] index = kParameterMIDGAIN -> [a EXCEPT !.mid = setPeakGain(@, value)]
      [] index = kParameterMIDFREQ ->
            [a EXCEPT !.mid = setFc(@, Normalised(value, sampleRate))]
      [] index = kParameterMIDQ -> [a EXCEPT !.mid = setQ(@, value)]
      [] index = kParameterMTYPE ->
            [a EXCEPT !.mid_type = IF AboveHalf(value) THEN "bandpass" ELSE "peak"]
      [] index = kParameterTREBLEGAIN -> [a EXCEPT !.treble = setPeakGain(@, value)]
      [] index = kParameterTREBLEFREQ ->
            [a EXCEPT !.treble = setFc(@, Normalised(value, sampleRate))]
      [] index = kParameterDEPTH -> [a EXCEPT !.depth = setPeakGain(@, value)]
      [] index = kParameterPRESENCE -> [a EXCEPT !.presence = setPeakGain(@, value)]
      [] index = kParameterMASTER -> [a EXCEPT !.mastergain = setTarget(@, DB_CO(value))]
      [] OTHER -> a

(***************************************************************************)
(* Model documents                                                         *)
(***************************************************************************)
\* A document: whether the file parses, the in_shape array, and in_skip, out_gain
\* as <<>> (absent or not a number) or <<value>>; arch is what the architecture
\* description amounts to: a known single input network, one no creator knows,
\* or a known one whose weights do not parse.
Doc(readable, in_shape, in_skip, out_gain, arch) ==
    [readable |-> readable, in_shape |-> in_shape, in_skip |-> in_skip,
     out_gain |-> out_gain, arch |-> arch]

NoDoc == Doc(FALSE, <<>>, <<>>, <<>>, "unknown")

GoodDocs ==
    {Doc(TRUE, <<1, 1>>, <<>>, <<>>, "Net1"),
     Doc(TRUE, <<1, 1>>, <<1>>, <<6>>, "Net1")}

BadDocs ==
    {Doc(FALSE, <<1, 1>>, <<>>, <<>>, "Net1"),
     Doc(TRUE, <<>>, <<>>, <<>>, "Net1"),
     Doc(TRUE, <<1, 2>>, <<>>, <<>>, "Net1"),
     Doc(TRUE, <<1, 1>>, <<2>>, <<>>, "Net1"),
     Doc(TRUE, <<1, 1>>, <<>>, <<>>, "unknown"),
     Doc(TRUE, <<1, 1>>, <<0>>, <<0>>, "badweights")}

Docs == GoodDocs \cup BadDocs

\* the documents of LoadSpec: every combination of a file that parses or not,
\* an in_shape absent or ending in 0, 1 or 2, an in_skip absent or -1 .. 2, an
\* out_gain absent, positive, negative or below -90 dB, and the architectures
LoadDocs ==
    {Doc(readable, in_shape, in_skip, out_gain, arch) :
        readable \in BOOLEAN,
        in_shape \in {<<>>, <<1, 0>>, <<1, 1>>, <<1, 2>>},
        in_skip \in {<<>>, <<-1>>, <<0>>, <<1>>, <<2>>},
        out_gain \in {<<>>, <<6>>, <<-20>>, <<-100>>},
        arch \in {"Net1", "unknown", "badweights"}}

Last(s) == s[Len(s)]

\* the first try block of setState: whether it throws
FirstTryThrows(doc) ==
    IF ~doc.readable THEN TRUE
    ELSE IF doc.in_shape = <<>> THEN TRUE
    ELSE IF Last(doc.in_shape) > 1 THEN TRUE
    ELSE IF doc.in_skip # <<>> THEN doc.in_skip[1] > 1
    ELSE FALSE

\* int input_skip after the first try block
DocInputSkip(doc) == IF doc.in_skip # <<>> THEN doc.in_skip[1] ELSE 0

\* float output_gain after the first try block, without the else branch
DocOutputGainNoDefault(doc) == IF doc.out_gain # <<>> THEN DB_CO(doc.out_gain[1]) ELSE 0

\* float output_gain after the first try block
DocOutputGain(doc) == IF doc.out_gain # <<>> THEN DB_CO(doc.out_gain[1]) ELSE GainUnit

\* the second try block: custom_model_creator fails or parseJson throws
SecondTryThrows(doc) == doc.arch \in {"unknown", "badweights"}

(***************************************************************************)
(* State                                                                   *)
(***************************************************************************)
SampleRates == {44100, 48000}

\* float out[2048] = {}
Silence == [i \in 1 .. PrimeLen |-> 0]

LoaderIdle ==
    [pc |-> "idle", doc |-> NoDoc, newmodel |-> NULL, oldmodel |-> NULL,
     input_skip |-> 0, output_gain |-> 0]

AudioIdle ==
    [pc |-> "idle", out |-> <<>>, rmodel |-> NULL, cur |-> NULL,
     reqbypass |-> FALSE, reqpos |-> "post", log |-> <<>>, xs |-> <<>>, dirty |-> FALSE]

NoSnap == [aida |-> NewAidaToneControl, out |-> <<>>, inst |-> NoInstance]

\* the plugin as AidaDSPLoaderPlugin() leaves it
Init ==
    /\ parameters = [i \in ParamIdx |-> kParameterDefaults[i + 1]]
    /\ aida = setSampleRate(NewAidaToneControl,
                            [i \in ParamIdx |-> kParameterDefaults[i + 1]], 48000)
    /\ model = NULL
    /\ running = FALSE
    /\ heap = [id \in Ids |-> NoInstance]
    /\ nextId = 1
    /\ host = [sampleRate |-> 48000, active |-> FALSE, blocks |-> 0]
    /\ loader = LoaderIdle
    /\ audio = AudioIdle
    /\ snap = NoSnap

(***************************************************************************)
(* setState(key, value): the loader                                        *)
(***************************************************************************)
\* lines 373-376 with the key test releasing the slot: a key other than "json"
\* empties the active-model slot
SetStateCallUnloads(key, doc) ==
    /\ loader.pc = "idle"
    /\ nextId <= MaxLoads
    /\ IF key # "json"
       THEN /\ model' = NULL
            /\ UNCHANGED loader
       ELSE /\ loader' = [LoaderIdle EXCEPT !.pc = "parse", !.doc = doc]
            /\ UNCHANGED model
    /\ UNCHANGED <<aida, parameters, running, heap, nextId, host, audio, snap>>

\* lines 373-376: the key test
SetStateCall(key, doc) ==
    /\ loader.pc = "idle"
    /\ nextId <= MaxLoads
    /\ IF key # "json"
       THEN UNCHANGED loader
       ELSE loader' = [LoaderIdle EXCEPT !.pc = "parse", !.doc = doc]
    /\ UNCHANGED <<aida, parameters, model, running, heap, nextId, host, audio, snap>>

\* lines 382-412, the first try block throwing: logged, setState returns
ParseFail ==
    /\ loader.pc = "parse"
    /\ FirstTryThrows(loader.doc)
    /\ loader' = LoaderIdle
    /\ UNCHANGED <<aida, parameters, model, running, heap, nextId, host, audio, snap>>

\* lines 382-414: the first try block and make_unique
ParseOk ==
    /\ loader.pc = "parse"
    /\ ~FirstTryThrows(loader.doc)
    /\ heap' = [heap EXCEPT ![nextId] = NewDynamicModel]
    /\ nextId' = nextId + 1
    /\ loader' = [loader EXCEPT !.pc = "build", !.newmodel = nextId,
                                !.input_skip = DocInputSkip(loader.doc),
                                !.output_gain = DocOutputGain(loader.doc)]
    /\ UNCHANGED <<aida, parameters, model, running, host, audio, snap>>

\* lines 416-435, the second try block throwing, with the active model dropped
BuildFailClears ==
    /\ loader.pc = "build"
    /\ SecondTryThrows(loader.doc)
    /\ heap' = [heap EXCEPT ![loader.newmodel].live = FALSE]
    /\ model' = NULL
    /\ loader' = LoaderIdle
    /\ UNCHANGED <<aida, parameters, running, nextId, host, audio, snap>>

\* lines 416-435, the second try block throwing: newmodel is destroyed on return
BuildFail ==
    /\ loader.pc = "build"
    /\ SecondTryThrows(loader.doc)
    /\ heap' = [heap EXCEPT ![loader.newmodel].live = FALSE]
    /\ loader' = LoaderIdle
    /\ UNCHANGED <<aida, parameters, model, running, nextId, host, audio, snap>>

\* lines 416-431: custom_model_creator, parseJson, reset
BuildOk ==
    /\ loader.pc = "build"
    /\ ~SecondTryThrows(loader.doc)
    /\ heap' = [heap EXCEPT ![loader.newmodel] =
                  ResetState([@ EXCEPT !.variant = loader.doc.arch, !.weights = TRUE,
                                       !.stage = "built"])]
    /\ loader' = [loader EXCEPT !.pc = "save"]
    /\ UNCHANGED <<aida, parameters, model, running, nextId, host, audio, snap>>

\* lines 437-439
SaveExtra ==
    /\ loader.pc = "save"
    /\ heap' = [heap EXCEPT ![loader.newmodel] =
                  [@ EXCEPT !.input_skip = (loader.input_skip # 0),
                            !.output_gain = loader.output_gain,
                            !.stage = "configured"]]
    /\ loader' = [loader EXCEPT !.pc = "prime"]
    /\ UNCHANGED <<aida, parameters, model, running, nextId, host, audio, snap>>

\* applyModel(newmodel.get(), out, 2048) on the instances setState configures,
\* computed once
ConfiguredInstances ==
    {[NewDynamicModel EXCEPT !.variant = "Net1", !.weights = TRUE,
                             !.input_skip = (DocInputSkip(d) # 0),
                             !.output_gain = DocOutputGain(d), !.stage = "configured"] :
        d \in {x \in Docs \cup LoadDocs : ~FirstTryThrows(x) /\ ~SecondTryThrows(x)}}

PrimedInstances == [inst \in ConfiguredInstances |-> applyModel(inst, Silence).inst]

applyModelSilence(inst) ==
    IF inst \in ConfiguredInstances THEN PrimedInstances[inst]
    ELSE applyModel(inst, Silence).inst

\* lines 441-443 left out: the instance is published as it is
PrimeSkipped ==
    /\ loader.pc = "prime"
    /\ loader' = [loader EXCEPT !.pc = "publish"]
    /\ UNCHANGED <<aida, parameters, model, running, heap, nextId, host, audio, snap>>

\* lines 441-443: applyModel over the silent buffer
Prime ==
    /\ loader.pc = "prime"
    /\ heap' = [heap EXCEPT ![loader.newmodel] =
                  [applyModelSilence(@) EXCEPT !.stage = "primed"]]
    /\ loader' = [loader EXCEPT !.pc = "publish"]
    /\ UNCHANGED <<aida, parameters, model, running, nextId, host, audio, snap>>

\* lines 445-446
Publish ==
    /\ loader.pc = "publish"
    /\ model' = loader.newmodel
    /\ loader' = [loader EXCEPT !.pc = "poll", !.oldmodel = model, !.newmodel = NULL]
    /\ UNCHANGED <<aida, parameters, running, heap, nextId, host, audio, snap>>

\* line 449 true, line 450: d_msleep(5)
PollWait ==
    /\ loader.pc = "poll"
    /\ loader.oldmodel # NULL /\ running
    /\ loader' = [loader EXCEPT !.pc = "sleep"]
    /\ UNCHANGED <<aida, parameters, model, running, heap, nextId, host, audio, snap>>

\* d_msleep(5) returns
PollWake ==
    /\ loader.pc = "sleep"
    /\ loader' = [loader EXCEPT !.pc = "poll"]
    /\ UNCHANGED <<aida, parameters, model, running, heap, nextId, host, audio, snap>>

\* line 449 false followed by delete oldmodel
PollExitDelete ==
    /\ loader.pc = "poll"
    /\ ~(loader.oldmodel # NULL /\ running)
    /\ heap' = IF loader.oldmodel # NULL
               THEN [heap EXCEPT ![loader.oldmodel].live = FALSE] ELSE heap
    /\ loader' = LoaderIdle
    /\ UNCHANGED <<aida, parameters, model, running, nextId, host, audio, snap>>

\* line 449 false, line 451: setState returns
PollExit ==
    /\ loader.pc = "poll"
    /\ ~(loader.oldmodel # NULL /\ running)
    /\ loader' = LoaderIdle
    /\ UNCHANGED <<aida, parameters, model, running, heap, nextId, host, audio, snap>>

Keys == {"json", "cabinet"}

LoaderStep ==
    \/ \E key \in Keys, doc \in Docs : SetStateCall(key, doc)
    \/ ParseFail
    \/ ParseOk
    \/ BuildFail
    \/ BuildOk
    \/ SaveExtra
    \/ Prime
    \/ Publish
    \/ PollWait
    \/ PollWake
    \/ PollExit

(***************************************************************************)
(* run(inputs, outputs, numSamples): the audio path                        *)
(***************************************************************************)
\* the input blocks the host hands to run()
RunInputs == {[i \in 1 .. BlockLen |-> 1]}

InRun == audio.pc \in {"pregain", "eqpre", "check", "mark", "enter", "inmodel", "clear",
                       "dc", "eqpost", "master"}

\* line 492: applyBiquadFilter(aida.in_lpf, out, in, numSamples)
RunFirstStage(in) ==
    /\ audio.pc = "idle"
    /\ host.active
    /\ \E r \in {applyBiquadFilter(aida.in_lpf, in)} :
           /\ aida' = [aida EXCEPT !.in_lpf = r.filter]
           /\ audio' = [AudioIdle EXCEPT !.pc = "pregain", !.out = r.out,
                                         !.log = <<"in_lpf">>]
    /\ UNCHANGED <<parameters, model, running, heap, nextId, loader, snap>>

\* the host calls run(): one of the MaxBlocks calls of a behaviour
RunBegin(in) ==
    /\ host.blocks < MaxBlocks
    /\ host' = [host EXCEPT !.blocks = @ + 1]
    /\ RunFirstStage(in)

\* the host calls run(), block after block without end
RunBeginFree(in) ==
    /\ UNCHANGED host
    /\ RunFirstStage(in)

\* line 495
RunPregain ==
    /\ audio.pc = "pregain"
    /\ \E r \in {applyGainRamp(aida.pregain, audio.out)} :
           /\ aida' = [aida EXCEPT !.pregain = r.smoother]
           /\ audio' = [audio EXCEPT !.pc = "eqpre", !.out = r.out,
                                     !.log = Append(@, "pregain")]
    /\ UNCHANGED <<parameters, model, running, heap, nextId, host, loader, snap>>

\* lines 498-499
RunEqPre ==
    /\ audio.pc = "eqpre"
    /\ IF ~aida.eq_bypass /\ aida.eq_pos = "pre"
       THEN \E r \in {applyToneControls(aida, audio.out)} :
                /\ aida' = r.aida
                /\ audio' = [audio EXCEPT !.pc = "check", !.out = r.out,
                                          !.reqbypass = aida.eq_bypass,
                                          !.reqpos = aida.eq_pos,
                                          !.log = Append(@, "eq_pre")]
       ELSE /\ audio' = [audio EXCEPT !.pc = "check", !.reqbypass = aida.eq_bypass,
                                      !.reqpos = aida.eq_pos]
            /\ UNCHANGED aida
    /\ UNCHANGED <<parameters, model, running, heap, nextId, host, loader, snap>>

\* line 501
RunModelCheck ==
    /\ audio.pc = "check"
    /\ IF ~aida.net_bypass /\ model # NULL
       THEN audio' = [audio EXCEPT !.pc = "mark", !.rmodel = model]
       ELSE audio' = [audio EXCEPT !.pc = "dc"]
    /\ UNCHANGED <<aida, parameters, model, running, heap, nextId, host, loader, snap>>

\* line 503, entered only once the loader is out of its polling loop
RunMarkBlocked ==
    /\ audio.pc = "mark"
    /\ loader.pc \notin {"poll", "sleep"}
    /\ running' = TRUE
    /\ audio' = [audio EXCEPT !.pc = "enter"]
    /\ UNCHANGED <<aida, parameters, model, heap, nextId, host, loader, snap>>

\* line 503: running.store(true)
RunMark ==
    /\ audio.pc = "mark"
    /\ running' = TRUE
    /\ audio' = [audio EXCEPT !.pc = "enter"]
    /\ UNCHANGED <<aida, parameters, model, heap, nextId, host, loader, snap>>

\* line 504, the argument: model is a plain pointer the loader writes concurrently,
\* so the build may pass the value line 501 read or read the slot again
RunModelEnter ==
    /\ audio.pc = "enter"
    /\ \E m \in {audio.rmodel, model} :
          audio' = [audio EXCEPT !.pc = "inmodel", !.cur = m]
    /\ UNCHANGED <<aida, parameters, model, running, heap, nextId, host, loader, snap>>

\* line 504: applyModel(model, out, numSamples)
RunModelApply ==
    /\ audio.pc = "inmodel"
    /\ \E r \in {applyModel(heap[audio.cur], audio.out)} :
           /\ heap' = [heap EXCEPT ![audio.cur] = r.inst]
           /\ audio' = [audio EXCEPT !.pc = "clear", !.out = r.out, !.xs = r.xs,
                                     !.log = Append(@, "model")]
    /\ UNCHANGED <<aida, parameters, model, running, nextId, host, loader, snap>>

\* line 505 left out: the flag stays set after the model stage
RunClearMissing ==
    /\ audio.pc = "clear"
    /\ audio' = [audio EXCEPT !.pc = "dc", !.cur = NULL, !.rmodel = NULL]
    /\ UNCHANGED <<aida, parameters, model, running, heap, nextId, host, loader, snap>>

\* line 505: running.store(false)
RunClear ==
    /\ audio.pc = "clear"
    /\ running' = FALSE
    /\ audio' = [audio EXCEPT !.pc = "dc", !.cur = NULL, !.rmodel = NULL]
    /\ UNCHANGED <<aida, parameters, model, heap, nextId, host, loader, snap>>

\* line 509 made conditional on the network being enabled
RunDcUnlessBypassed ==
    /\ audio.pc = "dc"
    /\ IF aida.net_bypass
       THEN /\ audio' = [audio EXCEPT !.pc = "eqpost"]
            /\ UNCHANGED aida
       ELSE \E r \in {applyBiquadFilter(aida.dc_blocker, audio.out)} :
                /\ aida' = [aida EXCEPT !.dc_blocker = r.filter]
                /\ audio' = [audio EXCEPT !.pc = "eqpost", !.out = r.out,
                                          !.log = Append(@, "dc_blocker")]
    /\ UNCHANGED <<parameters, model, running, heap, nextId, host, loader, snap>>

\* line 509
RunDc ==
    /\ audio.pc = "dc"
    /\ \E r \in {applyBiquadFilter(aida.dc_blocker, audio.out)} :
           /\ aida' = [aida EXCEPT !.dc_blocker = r.filter]
           /\ audio' = [audio EXCEPT !.pc = "eqpost", !.out = r.out,
                                     !.log = Append(@, "dc_blocker")]
    /\ UNCHANGED <<parameters, model, running, heap, nextId, host, loader, snap>>

\* line 512 without the test of eq_pos
EqPostIgnoresPos(b, p) == ~b

\* the condition of line 512 on the flags b, p read
EqPostTaken(b, p) == ~b /\ p = "post"

\* lines 512-513: eq_bypass and eq_pos are plain fields setParameterValue writes
\* concurrently, so the build may test the values line 498 read or read them again
RunEqPost ==
    /\ audio.pc = "eqpost"
    /\ \E f \in {<<audio.reqbypass, audio.reqpos>>, <<aida.eq_bypass, aida.eq_pos>>} :
          IF EqPostTaken(f[1], f[2])
          THEN \E r \in {applyToneControls(aida, audio.out)} :
                   /\ aida' = r.aida
                   /\ audio' = [audio EXCEPT !.pc = "master", !.out = r.out,
                                             !.log = Append(@, "eq_post")]
          ELSE /\ audio' = [audio EXCEPT !.pc = "master"]
               /\ UNCHANGED aida
    /\ UNCHANGED <<parameters, model, running, heap, nextId, host, loader, snap>>

\* line 516
RunMaster ==
    /\ audio.pc = "master"
    /\ \E r \in {applyGainRamp(aida.mastergain, audio.out)} :
           /\ aida' = [aida EXCEPT !.mastergain = r.smoother]
           /\ audio' = [audio EXCEPT !.pc = "done", !.out = r.out,
                                     !.reqbypass = FALSE, !.reqpos = "post",
                                     !.log = Append(@, "mastergain")]
    /\ UNCHANGED <<parameters, model, running, heap, nextId, host, loader, snap>>

\* line 517: run() returns, the block is the host's
RunEnd ==
    /\ audio.pc = "done"
    /\ audio' = AudioIdle
    /\ UNCHANGED <<aida, parameters, model, running, heap, nextId, host, loader, snap>>

\* a step of a run() call in progress
RunStep ==
    \/ RunPregain
    \/ RunEqPre
    \/ RunModelCheck
    \/ RunMark
    \/ RunModelEnter
    \/ RunModelApply
    \/ RunClear
    \/ RunDc
    \/ RunEqPost
    \/ RunMaster
    \/ RunEnd

(***************************************************************************)
(* activate(), deactivation, sampleRateChanged(), setParameterValue()      *)
(***************************************************************************)
\* lines 461-464 without line 462: only the pre-gain ramp is cleared
ActivateBeginPregainOnly ==
    /\ audio.pc = "idle"
    /\ ~host.active
    /\ aida' = [aida EXCEPT !.pregain = clearToTarget(@)]
    /\ IF model # NULL
       THEN /\ audio' = [AudioIdle EXCEPT !.pc = "act_mark", !.rmodel = model]
            /\ UNCHANGED host
       ELSE /\ audio' = AudioIdle
            /\ host' = [host EXCEPT !.active = TRUE]
    /\ UNCHANGED <<parameters, model, running, heap, nextId, loader, snap>>

\* lines 461-464
ActivateBegin ==
    /\ audio.pc = "idle"
    /\ ~host.active
    /\ aida' = [aida EXCEPT !.pregain = clearToTarget(@), !.mastergain = clearToTarget(@)]
    /\ IF model # NULL
       THEN /\ audio' = [AudioIdle EXCEPT !.pc = "act_mark", !.rmodel = model]
            /\ UNCHANGED host
       ELSE /\ audio' = AudioIdle
            /\ host' = [host EXCEPT !.active = TRUE]
    /\ UNCHANGED <<parameters, model, running, heap, nextId, loader, snap>>

\* line 466
ActivateMark ==
    /\ audio.pc = "act_mark"
    /\ running' = TRUE
    /\ audio' = [audio EXCEPT !.pc = "act_reset"]
    /\ UNCHANGED <<aida, parameters, model, heap, nextId, host, loader, snap>>

\* lines 468-477: model->variant, read as in run()
ActivateReset ==
    /\ audio.pc = "act_reset"
    /\ \E m \in {audio.rmodel, model} :
          heap' = [heap EXCEPT ![m] =
                     IF @.variant # "NullModel" THEN ResetState(@) ELSE @]
    /\ audio' = [audio EXCEPT !.pc = "act_clear"]
    /\ UNCHANGED <<aida, parameters, model, running, nextId, host, loader, snap>>

\* line 479
ActivateClear ==
    /\ audio.pc = "act_clear"
    /\ running' = FALSE
    /\ audio' = AudioIdle
    /\ host' = [host EXCEPT !.active = TRUE]
    /\ UNCHANGED <<aida, parameters, model, heap, nextId, loader, snap>>

\* the host deactivates the plugin between run() calls
Deactivate ==
    /\ audio.pc = "idle"
    /\ host.active
    /\ host' = [host EXCEPT !.active = FALSE]
    /\ UNCHANGED <<aida, parameters, model, running, heap, nextId, loader, audio, snap>>

\* lines 523-526; called only while the plugin is deactivated
SampleRateChanged(newSampleRate) ==
    /\ audio.pc = "idle"
    /\ ~host.active
    /\ host' = [host EXCEPT !.sampleRate = newSampleRate]
    /\ aida' = setSampleRate(aida, parameters, newSampleRate)
    /\ UNCHANGED <<parameters, model, running, heap, nextId, loader, audio, snap>>

\* lines 312-371 with the break of line 349 missing: kParameterMIDQ falls
\* through to the kParameterMTYPE case
SetParameterValueFallsThrough(index, value) ==
    /\ parameters' = [parameters EXCEPT ![index] = value]
    /\ aida' = IF index = kParameterMIDQ
               THEN ParameterSwitch(ParameterSwitch(aida, index, value, host.sampleRate),
                                    kParameterMTYPE, value, host.sampleRate)
               ELSE ParameterSwitch(aida, index, value, host.sampleRate)
    /\ audio' = [audio EXCEPT !.dirty = @ \/ InRun]
    /\ UNCHANGED <<model, running, heap, nextId, host, loader, snap>>

\* lines 312-371; called from the host's thread, also while run() is in progress
SetParameterValue(index, value) ==
    /\ parameters' = [parameters EXCEPT ![index] = value]
    /\ aida' = ParameterSwitch(aida, index, value, host.sampleRate)
    /\ audio' = [audio EXCEPT !.dirty = @ \/ InRun]
    /\ UNCHANGED <<model, running, heap, nextId, host, loader, snap>>

AudioStep ==
    \/ \E in \in RunInputs : RunBegin(in)
    \/ RunStep
    \/ ActivateBegin
    \/ ActivateMark
    \/ ActivateReset
    \/ ActivateClear

(***************************************************************************)
(* Spec: the loader, the audio path and the host's thread interleaved      *)
(***************************************************************************)
HostStep ==
    \/ Deactivate
    \/ \E value \in {0, 1} : SetParameterValue(kParameterNETBYPASS, value)

Next == LoaderStep \/ AudioStep \/ HostStep

Spec == Init /\ [][Next]_vars

(***************************************************************************)
(* FairSpec: the loader against an audio path that is called block after   *)
(* block; every thread that can take a step eventually takes one           *)
(***************************************************************************)
FreeAudioStep ==
    \/ \E in \in RunInputs : RunBeginFree(in)
    \/ RunStep
    \/ ActivateBegin
    \/ ActivateMark
    \/ ActivateReset
    \/ ActivateClear

FairNext == LoaderStep \/ FreeAudioStep

FairSpec == Init /\ [][FairNext]_vars /\ WF_vars(LoaderStep) /\ WF_vars(FreeAudioStep)

(***************************************************************************)
(* SeqSpec: the handlers called one after the other, each running to its   *)
(* end, with every switch parameter                                        *)
(***************************************************************************)
SwitchParams ==
    {kParameterNETBYPASS, kParameterEQBYPASS, kParameterEQPOS, kParameterMTYPE,
     kParameterCABSIMBYPASS, kParameterGLOBALBYPASS}

SeqLoaderStep ==
    \/ \E key \in Keys, doc \in Docs : SetStateCall(key, doc)
    \/ ParseFail
    \/ ParseOk
    \/ BuildFail
    \/ BuildOk
    \/ SaveExtra
    \/ Prime
    \/ Publish
    \/ PollExit

SeqHostStep ==
    \/ Deactivate
    \/ \E index \in SwitchParams, value \in {0, 1} : SetParameterValue(index, value)

SeqNext ==
    \/ audio.pc = "idle" /\ SeqLoaderStep
    \/ loader.pc = "idle" /\ AudioStep
    \/ audio.pc = "idle" /\ loader.pc = "idle" /\ SeqHostStep

SeqSpec == Init /\ [][SeqNext]_vars

(***************************************************************************)
(* DspSpec: applyToneControls and applyModel called once on a block, from  *)
(* a tone stack whose delay registers hold earlier audio, or on a model    *)
(* instance that has already processed audio                               *)
(***************************************************************************)
Buffers == [1 .. BlockLen -> Samples]

\* delay registers (z1, z2) of a filter that has run, or not yet
ZPairs == {<<0, 0>>, <<1, SampleMod - 1>>}

ToneFilters == {"depth", "bass", "mid", "treble", "presence"}

\* the output gains a document gives: absent, 6 dB, below -90 dB
DspGains == {GainUnit, DB_CO(6), DB_CO(-100)}

WithRegisters(a, z) ==
    [f \in DOMAIN a |->
        IF f \in ToneFilters THEN [a[f] EXCEPT !.z1 = z[f][1], !.z2 = z[f][2]] ELSE a[f]]

DspInit ==
    /\ parameters = [i \in ParamIdx |-> kParameterDefaults[i + 1]]
    /\ running = FALSE
    /\ nextId = 2
    /\ host = [sampleRate |-> 48000, active |-> TRUE, blocks |-> 0]
    /\ loader = LoaderIdle
    /\ snap = NoSnap
    /\ model = 1
    /\ \E out \in Buffers :
          /\ audio = [AudioIdle EXCEPT !.pc = "dsp", !.out = out]
          /\ \/ /\ \E z \in [ToneFilters -> ZPairs], mt \in {"peak", "bandpass"},
                      t \in {"peak", "bandpass"} :
                      aida = [WithRegisters(
                                 setSampleRate(NewAidaToneControl,
                                    [i \in ParamIdx |-> kParameterDefaults[i + 1]], 48000), z)
                              EXCEPT !.mid_type = mt, !.mid.type = t]
                /\ heap = [id \in Ids |->
                             IF id = 1 THEN PrimedInstances[CHOOSE c \in ConfiguredInstances :
                                                               ~c.input_skip]
                             ELSE NoInstance]
             \/ /\ aida = setSampleRate(NewAidaToneControl,
                                       [i \in ParamIdx |-> kParameterDefaults[i + 1]], 48000)
                /\ \E v \in Variants, sk \in BOOLEAN, g \in DspGains, h \in 0 .. (StateMod - 1) :
                      heap = [id \in Ids |->
                                IF id = 1
                                THEN [NewDynamicModel EXCEPT
                                         !.variant = v, !.weights = (v # "NullModel"),
                                         !.h = IF v = "NullModel" THEN 0 ELSE h,
                                         !.input_skip = sk, !.output_gain = g,
                                         !.stage = "primed"]
                                ELSE NoInstance]

\* applyToneControls(aida, out, numSamples), lines 119-133
DspToneControls ==
    /\ audio.pc = "dsp"
    /\ snap' = [aida |-> aida, out |-> audio.out, inst |-> heap[model]]
    /\ \E r \in {applyToneControls(aida, audio.out)} :
           /\ aida' = r.aida
           /\ audio' = [audio EXCEPT !.pc = "dsp_tone", !.out = r.out, !.log = r.ran]
    /\ UNCHANGED <<parameters, model, running, heap, nextId, host, loader>>

\* applyModel(model, out, numSamples), lines 138-168
DspApplyModel ==
    /\ audio.pc = "dsp"
    /\ snap' = [aida |-> aida, out |-> audio.out, inst |-> heap[model]]
    /\ \E r \in {applyModel(heap[model], audio.out)} :
           /\ heap' = [heap EXCEPT ![model] = r.inst]
           /\ audio' = [audio EXCEPT !.pc = "dsp_model", !.out = r.out, !.xs = r.xs]
    /\ UNCHANGED <<aida, parameters, model, running, nextId, host, loader>>

DspNext == DspToneControls \/ DspApplyModel

DspSpec == DspInit /\ [][DspNext]_vars

(***************************************************************************)
(* ParamSpec: setParameterValue with every parameter at its default and at *)
(* the ends of its range, sampleRateChanged, activation and deactivation,  *)
(* called one after the other on a plugin without a model                  *)
(***************************************************************************)
\* kParameters[i].ranges.min and .max (Q in 1/1000)
kParameterMinimums ==
    <<25, -12, 0, 0, 0, -8, 75, -8, 150, 200, 0, -8, 1000, -8, -8, -15, 0, 0>>

kParameterMaximums ==
    <<99, 0, 1, 1, 1, 8, 600, 8, 5000, 5000, 1, 8, 4000, 8, 8, 15, 1, 1>>

ParamValues(index) ==
    {kParameterMinimums[index + 1], kParameterDefaults[index + 1],
     kParameterMaximums[index + 1]}

\* the parameters that are away from their default
ParamsSet == {i \in ParamIdx : parameters[i] # kParameterDefaults[i + 1]}

ParamHostStep ==
    \/ Deactivate
    \/ \E newSampleRate \in SampleRates : SampleRateChanged(newSampleRate)
    \/ \E index \in ParamIdx :
          /\ index \in ParamsSet \/ Cardinality(ParamsSet) < MaxSets
          /\ \E value \in ParamValues(index) : SetParameterValue(index, value)

ParamNext == ActivateBegin \/ ParamHostStep

ParamSpec == Init /\ [][ParamNext]_vars

(***************************************************************************)
(* LoadSpec: setState called again and again, with either key and every    *)
(* document of LoadDocs, on a plugin that is not processing audio          *)
(***************************************************************************)
LoadNext ==
    \/ \E key \in Keys, doc \in LoadDocs : SetStateCall(key, doc)
    \/ ParseFail
    \/ ParseOk
    \/ BuildFail
    \/ BuildOk
    \/ SaveExtra
    \/ Prime
    \/ Publish
    \/ PollExit

LoadSpec == Init /\ [][LoadNext]_vars

(***************************************************************************)
(* ActSpec: the load of a first model, the two gain parameters, sample     *)
(* rate changes, activation, deactivation and audio blocks, one after the  *)
(* other                                                                   *)
(***************************************************************************)
GainParams == {kParameterPREGAIN, kParameterMASTER}

ActLoaderStep ==
    \/ model = NULL /\ \E doc \in GoodDocs : SetStateCall("json", doc)
    \/ ParseOk
    \/ BuildOk
    \/ SaveExtra
    \/ Prime
    \/ Publish
    \/ PollExit

ActHostStep ==
    \/ Deactivate
    \/ \E newSampleRate \in SampleRates : SampleRateChanged(newSampleRate)
    \/ \E index \in GainParams :
          \E value \in ParamValues(index) : SetParameterValue(index, value)

ActNext ==
    \/ audio.pc = "idle" /\ ActLoaderStep
    \/ loader.pc = "idle" /\ AudioStep
    \/ audio.pc = "idle" /\ loader.pc = "idle" /\ ActHostStep

ActSpec == Init /\ [][ActNext]_vars

(***************************************************************************)
(* SlotSpec: Spec with sampleRateChanged() added to the host's calls:      *)
(* setState with either key and every document of Docs, run(), activate(), *)
(* deactivation, NETBYPASS changes and sample rate changes, interleaved    *)
(***************************************************************************)
SlotHostStep ==
    \/ HostStep
    \/ \E newSampleRate \in SampleRates : SampleRateChanged(newSampleRate)

SlotNext == LoaderStep \/ AudioStep \/ SlotHostStep

SlotSpec == Init /\ [][SlotNext]_vars

(***************************************************************************)
(* EqSpec: run() on a plugin without a model while the host's thread sets  *)
(* EQPOS and MTYPE at any point of the block, and EQBYPASS between blocks  *)
(***************************************************************************)
EqHostStep ==
    \/ Deactivate
    \/ \E index \in {kParameterEQPOS, kParameterMTYPE}, value \in {0, 1} :
          SetParameterValue(index, value)
    \/ audio.pc = "idle" /\ \E value \in {0, 1} :
          SetParameterValue(kParameterEQBYPASS, value)

EqAudioStep ==
    \/ ActivateBegin
    \/ \E in \in RunInputs : RunBegin(in)
    \/ RunPregain
    \/ RunEqPre
    \/ RunModelCheck
    \/ RunDc
    \/ RunEqPost
    \/ RunMaster
    \/ RunEnd

EqNext == EqAudioStep \/ EqHostStep

EqSpec == Init /\ [][EqNext]_vars

(***************************************************************************)
(* Properties                                                              *)
(***************************************************************************)
\* the run() call in progress, from its first stage to its return
InRunCall == InRun \/ audio.pc = "done"

LoaderPolling == loader.pc \in {"poll", "sleep"}

\* C1: the audio path is never inside applyModel with an instance that has
\* been released.
C1_NoUseAfterRelease == (audio.pc = "inmodel") => heap[audio.cur].live

\* C1, its case: the audio path is inside applyModel with a superseded
\* instance while the loader that superseded it has already returned.
C1_InSupersededAfterReturn ==
    /\ audio.pc = "inmodel"
    /\ audio.cur # model
    /\ loader.pc = "idle"

\* C2: whenever setState() is not in progress, the only instance still held
\* is the active one: every superseded instance has been released.
C2_OnlyActiveHeld ==
    (loader.pc = "idle") => \A id \in Ids : heap[id].live => id = model

\* the document being loaded makes the load fail
DocFails(doc) == IF FirstTryThrows(doc) THEN TRUE ELSE SecondTryThrows(doc)

\* C3: every step of a setState() call that fails leaves the active-model slot,
\* the running flag and the active instance as they were, and the call goes
\* from parsing or building straight to its return, never to the polling loop.
C3_FailedLoadFrame ==
    [][(/\ loader.pc \in {"parse", "build"}
        /\ DocFails(loader.doc)
        /\ loader' # loader)
       => (/\ loader'.pc \in {"build", "idle"}
           /\ model' = model
           /\ running' = running
           /\ (model # NULL => heap'[model] = heap[model]))]_vars

\* C3, its case: a load has failed while a model was active (its instance was
\* created and destroyed again) and the loader has returned.
C3_FailedWithActiveModel ==
    /\ loader.pc = "idle"
    /\ model # NULL
    /\ \E id \in Ids : ~heap[id].live /\ heap[id].stage = "allocated"

\* the instance is fully constructed and primed
Completed(id) ==
    /\ heap[id].live
    /\ heap[id].variant # "NullModel"
    /\ heap[id].weights
    /\ heap[id].stage = "primed"

\* C4: the slot, and every pointer the audio path has read from it, designates
\* an instance that is fully constructed and primed.
C4_PublishedCompleted ==
    /\ model # NULL => Completed(model)
    /\ audio.rmodel # NULL => Completed(audio.rmodel)
    /\ audio.cur # NULL => Completed(audio.cur)

\* C4, its case: the audio path is inside applyModel while the loader is
\* constructing the next instance.
C4_InModelWhileConstructing ==
    /\ audio.pc = "inmodel"
    /\ loader.pc \in {"build", "save", "prime", "publish"}

\* C5: a run() call in progress can always take its next step, wherever the
\* loader is.
C5_RunNeverBlocked == InRunCall => ENABLED RunStep

\* C5, its case: run() is about to mark the model stage while the loader is in
\* its polling loop.
C5_MarkWhilePolling == audio.pc = "mark" /\ LoaderPolling

\* C6: once the loader is in its polling loop it eventually returns.
C6_PollingReturns == LoaderPolling ~> (loader.pc = "idle")

\* the stages run() executes for the flags and the slot as they are
ExpectedStages ==
    <<"in_lpf", "pregain">>
    \o (IF ~aida.eq_bypass /\ aida.eq_pos = "pre" THEN <<"eq_pre">> ELSE <<>>)
    \o (IF ~aida.net_bypass /\ model # NULL THEN <<"model">> ELSE <<>>)
    \o <<"dc_blocker">>
    \o (IF ~aida.eq_bypass /\ aida.eq_pos = "post" THEN <<"eq_post">> ELSE <<>>)
    \o <<"mastergain">>

Positions(log, names) == {i \in 1 .. Len(log) : log[i] \in names}

\* C7: with no parameter change during the block, a finished run() call has
\* executed exactly the stages in the fixed order, the tone stack once when the
\* equalizer is enabled and not at all when it is bypassed.
C7_StageOrder ==
    (audio.pc = "done" /\ ~audio.dirty) =>
        /\ audio.log = ExpectedStages
        /\ Cardinality(Positions(audio.log, {"eq_pre", "eq_post"}))
              = IF aida.eq_bypass THEN 0 ELSE 1

\* C7, its case: a block with the equalizer in the pre position and the model
\* stage enabled has finished.
C7_PreEqBlockDone ==
    /\ audio.pc = "done"
    /\ ~aida.eq_bypass /\ aida.eq_pos = "pre"
    /\ ~aida.net_bypass /\ model # NULL

\* C8: a finished run() call has applied the DC blocker exactly once, after the
\* stages up to the model stage and before the post equalizer and master gain.
C8_DcBlockerOnce ==
    (audio.pc = "done") =>
        LET dc == Positions(audio.log, {"dc_blocker"})
        IN  /\ Cardinality(dc) = 1
            /\ \A i \in dc :
                  /\ \A j \in Positions(audio.log, {"in_lpf", "pregain", "eq_pre", "model"}) :
                        j < i
                  /\ \A j \in Positions(audio.log, {"eq_post", "mastergain"}) : i < j

\* C8, its case: a block has finished with every bypass set and no model.
C8_AllBypassedDone ==
    /\ audio.pc = "done"
    /\ aida.net_bypass /\ aida.eq_bypass
    /\ parameters[kParameterCABSIMBYPASS] = 1
    /\ parameters[kParameterGLOBALBYPASS] = 1
    /\ model = NULL

\* the recurrent state after the first k samples of in, from h
RECURSIVE StateAfter(_, _, _)
StateAfter(h, in, k) ==
    IF k = 0 THEN h ELSE Forward(StateAfter(h, in, k - 1), in[k]).h

\* C9: for a single-sample-input model, applyModel calls forward once per
\* sample, in index order, on the value the sample held before the call, and
\* sets the sample to that value plus forward's result times output_gain when
\* input_skip is set, to forward's result times output_gain otherwise.
C9_ApplyModelSamples ==
    (audio.pc = "dsp_model" /\ InputSize(snap.inst.variant) = 1) =>
        /\ audio.xs = snap.out
        /\ Len(audio.out) = Len(snap.out)
        /\ \A i \in 1 .. Len(snap.out) :
              LET y == Forward(StateAfter(snap.inst.h, snap.out, i - 1), snap.out[i]).y
                  g == Scale(y, snap.inst.output_gain)
              IN  audio.out[i] = IF snap.inst.input_skip
                                 THEN (snap.out[i] + g) % SampleMod ELSE g

\* C9, its case: applyModel has run on a network with input_skip set and
\* unity gain, and changed the block and the recurrent state.
C9_SkipModelApplied ==
    /\ audio.pc = "dsp_model"
    /\ snap.inst.variant = "Net1"
    /\ snap.inst.input_skip
    /\ snap.inst.output_gain = GainUnit
    /\ audio.out # snap.out
    /\ heap[model].h # snap.inst.h

\* C10: with mid_type band-pass, applyToneControls runs the mid filter alone:
\* bass, treble, depth and presence keep their coefficients and registers.
C10_BandpassOnlyMid ==
    (audio.pc = "dsp_tone" /\ snap.aida.mid_type = "bandpass") =>
        /\ \A f \in {"bass", "treble", "depth", "presence"} : aida[f] = snap.aida[f]
        /\ audio.log = <<"mid">>
        /\ aida.mid = applyBiquadFilter(snap.aida.mid, snap.out).filter
        /\ audio.out = applyBiquadFilter(snap.aida.mid, snap.out).out

\* C10, its case: applyToneControls has run with mid_type band-pass on a block
\* that moved the mid filter's registers, the other filters holding earlier audio.
C10_BandpassApplied ==
    /\ audio.pc = "dsp_tone"
    /\ snap.aida.mid_type = "bandpass"
    /\ aida.mid # snap.aida.mid
    /\ aida.bass.z1 # 0

\* C11: the mid filter is a band-pass filter exactly when mid_type is band-pass
\* and a peak filter exactly when mid_type is peak.
C11_MidTypeAgrees == aida.mid.type = MidBiquadType(aida.mid_type)

\* the document's in_shape ends in exactly 1 and its in_skip is absent, 0 or 1
DocWellFormed(doc) ==
    IF doc.in_shape = <<>> THEN FALSE
    ELSE IF Last(doc.in_shape) # 1 THEN FALSE
    ELSE doc.in_skip \in {<<>>, <<0>>, <<1>>}

\* C12: setState() publishes a model only for a document whose in_shape ends in
\* exactly 1 and whose in_skip is absent, 0 or 1.
C12_PublishedWellFormed == LoaderPolling => DocWellFormed(loader.doc)

\* C19: the model just published has input_skip false for an in_skip absent or
\* 0 and true for an in_skip of 1, and has unity output_gain for an absent
\* out_gain, the conversion of out_gain from decibels otherwise.
C19_PublishedExtraInfo ==
    (LoaderPolling /\ loader.doc.in_skip \in {<<>>, <<0>>, <<1>>}) =>
        /\ heap[model].input_skip = (loader.doc.in_skip = <<1>>)
        /\ heap[model].output_gain =
              IF loader.doc.out_gain = <<>> THEN GainUnit
              ELSE IF loader.doc.out_gain[1] > -90 THEN Pow10Db(loader.doc.out_gain[1])
              ELSE 0

\* C19, its case: a document with in_skip 1 and no out_gain has been published,
\* superseding a model loaded with other values.
C19_SkipDocPublished ==
    /\ LoaderPolling
    /\ loader.doc.in_skip = <<1>>
    /\ loader.doc.out_gain = <<>>
    /\ loader.oldmodel # NULL
    /\ heap[model].input_skip
    /\ heap[model].output_gain = GainUnit
    /\ heap[loader.oldmodel].output_gain = 0

\* the gain ramp has reached its target
Converged(s) == s.current = s.target

\* the block with every sample multiplied by the gain
Gained(out, g) == [i \in 1 .. Len(out) |-> Scale(out[i], g)]

\* C13: the step on which activate() returns leaves both gain ramps at their
\* targets and the active model, if any, with its recurrent state reset; and a
\* gain stage of run() that starts from a converged ramp multiplies the block by
\* exactly the target and leaves the ramp converged.
C13_ActivateConverges ==
    [][
        /\ (~host.active /\ host'.active) =>
            /\ Converged(aida'.pregain)
            /\ Converged(aida'.mastergain)
            /\ ((model' # NULL) => heap'[model'].h = 0)
        /\ (audio.pc = "pregain" /\ audio'.pc = "eqpre" /\ Converged(aida.pregain)) =>
            /\ audio'.out = Gained(audio.out, aida.pregain.target)
            /\ Converged(aida'.pregain)
        /\ (audio.pc = "master" /\ audio'.pc = "done" /\ Converged(aida.mastergain)) =>
            /\ audio'.out = Gained(audio.out, aida.mastergain.target)
            /\ Converged(aida'.mastergain)]_vars

\* C13, its case: activate() has returned, no block processed yet, with both
\* gain targets moved by setParameterValue beforehand and a primed model whose
\* recurrent state is back at its reset value.
C13_ActivatedWithModel ==
    /\ host.active
    /\ audio.pc = "idle"
    /\ host.blocks = 0
    /\ model # NULL
    /\ heap[model].stage = "primed"
    /\ heap[model].h = 0
    /\ aida.pregain.current = DB_CO(-12)
    /\ aida.mastergain.current = DB_CO(15)

\* the parameters a step gives a new value, and the members of aida it changes
ParamsChanged == {i \in ParamIdx : parameters'[i] # parameters[i]}

ElementsChanged == {f \in DOMAIN aida : aida'[f] # aida[f]}

\* C14: a setParameterValue call that gives a parameter a new value changes
\* that one stored value and at most one member of the tone stack, of a gain
\* ramp only its target, and leaves the slot, the instances and the running
\* flag alone; the cabinet and global bypass change nothing but their value.
C14_SetterFrame ==
    [][(parameters' # parameters) =>
          /\ Cardinality(ParamsChanged) = 1
          /\ Cardinality(ElementsChanged) <= 1
          /\ aida'.pregain.current = aida.pregain.current
          /\ aida'.mastergain.current = aida.mastergain.current
          /\ model' = model /\ running' = running /\ heap' = heap
          /\ (ParamsChanged \subseteq {kParameterCABSIMBYPASS, kParameterGLOBALBYPASS})
                => aida' = aida]_vars

\* C14, its case: the cabinet bypass and the mid Q have been set to the top of
\* their ranges, the mid filter alone having followed.
C14_BypassAndQSet ==
    /\ parameters[kParameterCABSIMBYPASS] = 1
    /\ parameters[kParameterMIDQ] = 5000
    /\ aida.mid.Q = 5000
    /\ aida.mid_type = "peak"
    /\ ~aida.net_bypass

\* C15: the instance run() passes to applyModel is the one it tested for being
\* non-null: the slot is read once per block.
C15_SlotReadOnce == (audio.pc = "inmodel") => audio.cur = audio.rmodel

\* C16: the running flag is set only between 'mark running' and 'clear
\* running', around applyModel in run() or around the reset in activate(); it
\* is clear whenever neither call is in progress and in every run() call that
\* skips the model stage.
C16_RunningWindow ==
    running => audio.pc \in {"enter", "inmodel", "clear", "act_reset", "act_clear"}

\* C16, its case: a run() call has finished without the model stage, a model
\* being active and net_bypass set, while the loader polls the flag.
C16_BypassedBlockDone ==
    /\ audio.pc = "done"
    /\ model # NULL
    /\ aida.net_bypass
    /\ \A i \in DOMAIN audio.log : audio.log[i] # "model"
    /\ loader.pc = "poll"
    /\ ~running

\* C17: with mid_type peak, applyToneControls filters the block with depth,
\* bass, mid, treble and presence, each once and in that order, each stage
\* taking the block the stage before it left.
C17_PeakChainOrder ==
    (audio.pc = "dsp_tone" /\ snap.aida.mid_type = "peak") =>
        LET d == applyBiquadFilter(snap.aida.depth, snap.out)
            b == applyBiquadFilter(snap.aida.bass, d.out)
            m == applyBiquadFilter(snap.aida.mid, b.out)
            t == applyBiquadFilter(snap.aida.treble, m.out)
            p == applyBiquadFilter(snap.aida.presence, t.out)
        IN  /\ audio.log = <<"depth", "bass", "mid", "treble", "presence">>
            /\ audio.out = p.out
            /\ aida.depth = d.filter
            /\ aida.bass = b.filter
            /\ aida.mid = m.filter
            /\ aida.treble = t.filter
            /\ aida.presence = p.filter

\* C17, its case: applyToneControls has run with mid_type peak on a block that
\* moved the registers of the first and of the last filter of the chain.
C17_PeakChainApplied ==
    /\ audio.pc = "dsp_tone"
    /\ snap.aida.mid_type = "peak"
    /\ aida.depth # snap.aida.depth
    /\ aida.presence # snap.aida.presence
    /\ audio.out # snap.out

\* C18: for a variant whose input width is not 1, applyModel changes neither
\* the block nor the instance, whatever input_skip is.
C18_WideModelNoOp ==
    (audio.pc = "dsp_model" /\ InputSize(snap.inst.variant) # 1) =>
        /\ audio.out = snap.out
        /\ heap[model] = snap.inst

\* C18, its case: applyModel has been called on a two-input network with
\* input_skip set, a recurrent state away from reset and a block that is not
\* silent.
C18_WideModelCalled ==
    /\ audio.pc = "dsp_model"
    /\ snap.inst.variant = "Net2"
    /\ snap.inst.input_skip
    /\ snap.inst.h # 0
    /\ \E i \in DOMAIN snap.out : snap.out[i] # 0

\* C20: whatever setParameterValue does to eq_pos and mid_type during the
\* block, a finished run() call has applied the tone stack at most once, and
\* exactly once when eq_bypass was false throughout the block.
C20_ToneStackOncePerBlock ==
    (audio.pc = "done") =>
        /\ Cardinality(Positions(audio.log, {"eq_pre", "eq_post"})) <= 1
        /\ ~aida.eq_bypass => Cardinality(Positions(audio.log, {"eq_pre", "eq_post"})) = 1

\* C21: once the active-model slot holds a model no step of setState, run,
\* activate, setParameterValue or sampleRateChanged empties it again, and a
\* setState call that published into an empty slot (the first successful
\* load) goes from line 449 straight to its return whatever the running flag
\* is: it never sleeps.
C21_SlotNeverEmptied ==
    [][
       /\ (model # NULL) => (model' # NULL)
       /\ (loader.pc = "publish" /\ model = NULL /\ loader' # loader)
             => (loader'.pc = "poll" /\ loader'.oldmodel = NULL)
       /\ (loader.pc = "poll" /\ loader.oldmodel = NULL /\ loader' # loader)
             => (loader'.pc = "idle")
      ]_vars

\* C21, its case: after a first model was published, a later load has failed
\* in the second try block and returned, the sample rate has been changed and
\* the plugin is activated again, the slot still holding the first model.
C21_FailedLoadAfterFirstModel ==
    /\ loader.pc = "idle"
    /\ model = 1
    /\ nextId = 3
    /\ ~heap[2].live /\ heap[2].stage = "allocated"
    /\ host.sampleRate = 44100
    /\ host.active

\* C21, its second case: the first successful load is at line 449 while the
\* audio thread holds the running flag.
C21_FirstLoadPollsWhileRunning ==
    loader.pc = "poll" /\ loader.oldmodel = NULL /\ running

====
